---- MODULE Spec2Model ----
(***************************************************************************)
(* A model of the ComfyUI thin client (src/comfyui/comfyui.py) and of the  *)
(* demo script that drives it (src/demo.py).                               *)
(*                                                                         *)
(* Python dictionaries are TLA+ functions with a string domain: a key is   *)
(* present iff it is in DOMAIN.  A dictionary whose enumeration order the  *)
(* code relies on (history["outputs"]) is the sequence of its values in    *)
(* that order.  Prompt texts are sequences of one-character strings, so    *)
(* that str.strip() is computed character by character.  The HTTP server   *)
(* is the environment: every response is an input of the call that         *)
(* receives it.                                                            *)
(***************************************************************************)
EXTENDS Integers, Sequences, FiniteSets, TLC

VARIABLES
    workflow,   \* self.workflow: the job template
    endpoint,   \* self.endpoint
    last,       \* the last call made on the client: operation, arguments, outcome
    requests,   \* the HTTP exchanges the last call issued, in order
    shadow,     \* history: per field, the value of its last successful set
    pc,         \* demo.py: position in the script
    attempt,    \* demo.py: entries of RETRIES consumed by the for loop
    prompt_id,  \* demo.py: prompt_id
    status,     \* demo.py: status
    outputs,    \* demo.py: outputs
    tally       \* history: what demo.py has done so far

clientVars == <<workflow, endpoint, last, requests, shadow>>
demoVars == <<pc, attempt, prompt_id, status, outputs, tally>>
vars == <<workflow, endpoint, last, requests, shadow,
          pc, attempt, prompt_id, status, outputs, tally>>

----------------------------------------------------------------------------
(* Bounds of the model *)

MaxInt == 1
MaxStrLen == 2
MaxImages == 2

Ints == (0 - MaxInt)..MaxInt
Whitespace == {" ", "\t", "\n"}
Chars == {" ", "a"}
Strings == UNION {[1..n -> Chars] : n \in 0..MaxStrLen}

----------------------------------------------------------------------------
(* default_workflow: DEFAULT_WORKFLOW_TEXT and the node indices *)

EMPTY_INDEX == "5"
KSAMPLER_INDEX == "3"
POSITIVE_PROMPT_INDEX == "6"
NEGATIVE_PROMPT_INDEX == "7"

DEFAULT_WIDTH == 512
DEFAULT_HEIGHT == 768
DEFAULT_SEED == 8566257
DEFAULT_POSITIVE == <<"c", "a", "t">>
DEFAULT_NEGATIVE == <<"b", "a", "d">>

DEFAULT_WORKFLOW ==
    (EMPTY_INDEX :> [inputs |-> [width |-> DEFAULT_WIDTH, height |-> DEFAULT_HEIGHT]])
    @@ (KSAMPLER_INDEX :> [inputs |-> [seed |-> DEFAULT_SEED]])
    @@ (POSITIVE_PROMPT_INDEX :> [inputs |-> [text |-> DEFAULT_POSITIVE]])
    @@ (NEGATIVE_PROMPT_INDEX :> [inputs |-> [text |-> DEFAULT_NEGATIVE]])

DEFAULT_ENDPOINT == "http://127.0.0.1:8188/"

----------------------------------------------------------------------------
(* Python helpers *)

\* dict.get(key, default)
dict_get(d, key, default) == IF key \in DOMAIN d THEN d[key] ELSE default

RECURSIVE lstrip(_)
lstrip(s) ==
    IF s # <<>> /\ Head(s) \in Whitespace THEN lstrip(Tail(s)) ELSE s

RECURSIVE rstrip(_)
rstrip(s) ==
    IF s # <<>> /\ s[Len(s)] \in Whitespace
        THEN rstrip(SubSeq(s, 1, Len(s) - 1))
        ELSE s

\* str.strip()
strip(s) == rstrip(lstrip(s))

\* httpx.Response.is_success, the test of raise_for_status()
is_success(status_code) == status_code \in 200..299

\* what a call leaves behind: it returned a value, or raised.  Arguments and
\* value are filed under the operation's name, since their types differ from
\* one operation to the next.
NoValue == <<>>
Returned(op, args, value, warnings) ==
    [op |-> op, args |-> (op :> args), raised |-> "", value |-> (op :> value),
     warnings |-> warnings]
Raised(op, args, exc, warnings) ==
    [op |-> op, args |-> (op :> args), raised |-> exc, value |-> NoValue,
     warnings |-> warnings]
ArgsOf(call) == call.args[call.op]
ValueOf(call) == call.value[call.op]

----------------------------------------------------------------------------
(* The accessors *)

width == workflow[EMPTY_INDEX].inputs.width
height == workflow[EMPTY_INDEX].inputs.height
seed == workflow[KSAMPLER_INDEX].inputs.seed
positive == workflow[POSITIVE_PROMPT_INDEX].inputs.text
negative == workflow[NEGATIVE_PROMPT_INDEX].inputs.text

\* a setter's effect on the client: the template after it, and what it raised
Assign(op, value, wf, exc) ==
    /\ workflow' = wf
    /\ last' = IF exc = "" THEN Returned(op, <<value>>, "", 0)
                           ELSE Raised(op, <<value>>, exc, 0)
    /\ shadow' = IF exc = "" THEN [shadow EXCEPT ![op] = value] ELSE shadow
    /\ requests' = <<>>
    /\ UNCHANGED endpoint

\* variant: the test is value >= 0
width_setter_nonneg(value) ==
    IF value >= 0
        THEN Assign("width", value,
                    [workflow EXCEPT ![EMPTY_INDEX].inputs.width = value], "")
        ELSE Assign("width", value, workflow, "ValueError")

width_setter(value) ==
    IF value > 0
        THEN Assign("width", value,
                    [workflow EXCEPT ![EMPTY_INDEX].inputs.width = value], "")
        ELSE Assign("width", value, workflow, "ValueError")

\* variant: the body of the width setter, copied with its key
height_setter_copied(value) ==
    IF value > 0
        THEN Assign("height", value,
                    [workflow EXCEPT ![EMPTY_INDEX].inputs.width = value], "")
        ELSE Assign("height", value, workflow, "ValueError")

height_setter(value) ==
    IF value > 0
        THEN Assign("height", value,
                    [workflow EXCEPT ![EMPTY_INDEX].inputs.height = value], "")
        ELSE Assign("height", value, workflow, "ValueError")

seed_setter(value) ==
    IF value > 0
        THEN Assign("seed", value,
                    [workflow EXCEPT ![KSAMPLER_INDEX].inputs.seed = value], "")
        ELSE Assign("seed", value, workflow, "ValueError")

positive_setter(value) ==
    IF strip(value) # <<>>
        THEN Assign("positive", value,
                    [workflow EXCEPT ![POSITIVE_PROMPT_INDEX].inputs.text = value], "")
        ELSE Assign("positive", value, workflow, "ValueError")

\* variant: the text is stripped before it is stored
negative_setter_strip(value) ==
    Assign("negative", value,
           [workflow EXCEPT ![NEGATIVE_PROMPT_INDEX].inputs.text = strip(value)], "")

negative_setter(value) ==
    Assign("negative", value,
           [workflow EXCEPT ![NEGATIVE_PROMPT_INDEX].inputs.text = value], "")

----------------------------------------------------------------------------
(* The HTTP operations *)

\* variant: an empty prompt_id is an error
submit_outcome_strict(response) ==
    LET pid == dict_get(response.json, "prompt_id", "") IN
    IF ~is_success(response.status_code)
        THEN Raised("submit_job", <<>>, "HTTPStatusError", 0)
        ELSE IF pid = ""
            THEN Raised("submit_job", <<>>, "KeyError", 0)
            ELSE Returned("submit_job", <<>>, pid, 0)

\* response.raise_for_status(), then the prompt_id of response.json()
submit_outcome(response) ==
    LET pid == dict_get(response.json, "prompt_id", "") IN
    IF ~is_success(response.status_code)
        THEN Raised("submit_job", <<>>, "HTTPStatusError", 0)
        ELSE Returned("submit_job", <<>>, pid, IF pid = "" THEN 1 ELSE 0)

submit_job(client_id, response) ==
    LET job == [prompt |-> workflow, client_id |-> client_id] IN
    /\ requests' = <<[method |-> "POST", url |-> endpoint \o "prompt",
                      json |-> job, response |-> response]>>
    /\ last' = submit_outcome(response)
    /\ UNCHANGED <<workflow, endpoint, shadow>>

\* variant: any record of the mapping will do
query_outcome_any(pid, response) ==
    LET history == response.json IN
    IF ~is_success(response.status_code)
        THEN Raised("query_job", <<pid>>, "HTTPStatusError", 0)
        ELSE IF DOMAIN history # {}
            THEN Returned("query_job", <<pid>>,
                          history[CHOOSE k \in DOMAIN history : TRUE], 0)
            ELSE Raised("query_job", <<pid>>, "KeyError", 0)

\* response.raise_for_status(), then the lookup of prompt_id in response.json()
query_outcome(pid, response) ==
    LET history == response.json IN
    IF ~is_success(response.status_code)
        THEN Raised("query_job", <<pid>>, "HTTPStatusError", 0)
        ELSE IF pid \in DOMAIN history
            THEN Returned("query_job", <<pid>>, history[pid], 0)
            ELSE Raised("query_job", <<pid>>, "KeyError", 0)

query_job(pid, response) ==
    /\ requests' = <<[method |-> "GET", url |-> endpoint \o "history/" \o pid,
                      response |-> response]>>
    /\ last' = query_outcome(pid, response)
    /\ UNCHANGED <<workflow, endpoint, shadow>>

\* the server's answer to GET {endpoint}view: the bytes of the file named, or
\* an error page
view(status_code, filename, subfolder, folder_type) ==
    [status_code |-> status_code,
     content |-> IF is_success(status_code)
                     THEN <<"bytes", folder_type, subfolder, filename>>
                     ELSE <<"error page">>]

\* one GET of {endpoint}view: the exchange, what it raised, the bytes read
download(filename, subfolder, folder_type, status_code) ==
    LET response == view(status_code, filename, subfolder, folder_type) IN
    [request |-> [method |-> "GET", url |-> endpoint \o "view",
                  params |-> [filename |-> filename, subfolder |-> subfolder,
                              type |-> folder_type],
                  response |-> response],
     raised |-> IF is_success(response.status_code) THEN "" ELSE "HTTPStatusError",
     data |-> response.content]

download_output(filename, subfolder, folder_type, status_code) ==
    LET d == download(filename, subfolder, folder_type, status_code) IN
    /\ requests' = <<d.request>>
    /\ last' = IF d.raised # ""
                   THEN Raised("download_output",
                               <<filename, subfolder, folder_type>>, d.raised, 0)
                   ELSE Returned("download_output",
                                 <<filename, subfolder, folder_type>>, d.data, 0)
    /\ UNCHANGED <<workflow, endpoint, shadow>>

\* variant: the images of a node are put before those already collected
RECURSIVE collect_images_reversed(_)
collect_images_reversed(nodes) ==
    IF nodes = <<>>
        THEN [image_dicts |-> <<>>, warnings |-> 0]
        ELSE LET rest == collect_images_reversed(Tail(nodes)) IN
             IF "images" \in DOMAIN Head(nodes)
                 THEN [image_dicts |-> rest.image_dicts \o Head(nodes).images,
                       warnings |-> rest.warnings]
                 ELSE [image_dicts |-> rest.image_dicts,
                       warnings |-> rest.warnings + 1]

\* the first loop of get_job_outputs: the image references of every output node
RECURSIVE collect_images(_)
collect_images(nodes) ==
    IF nodes = <<>>
        THEN [image_dicts |-> <<>>, warnings |-> 0]
        ELSE LET rest == collect_images(Tail(nodes)) IN
             IF "images" \in DOMAIN Head(nodes)
                 THEN [image_dicts |-> Head(nodes).images \o rest.image_dicts,
                       warnings |-> rest.warnings]
                 ELSE [image_dicts |-> rest.image_dicts,
                       warnings |-> rest.warnings + 1]

\* variant: a reference without a filename ends the loop
RECURSIVE fetch_images_break(_, _, _, _, _)
fetch_images_break(image_dicts, responses, output_data, issued, warnings) ==
    IF image_dicts = <<>>
        THEN [raised |-> "", output_data |-> output_data,
              requests |-> issued, warnings |-> warnings]
        ELSE LET image_dict == Head(image_dicts) IN
             IF "filename" \notin DOMAIN image_dict
                 THEN [raised |-> "", output_data |-> output_data,
                       requests |-> issued, warnings |-> warnings + 1]
                 ELSE LET filename == image_dict.filename
                          subfolder == dict_get(image_dict, "subfolder", "")
                          folder_type == dict_get(image_dict, "type", "output")
                          d == download(filename, subfolder, folder_type,
                                        Head(responses))
                      IN IF d.raised # ""
                             THEN [raised |-> d.raised, output_data |-> <<>>,
                                   requests |-> Append(issued, d.request),
                                   warnings |-> warnings]
                             ELSE fetch_images_break(
                                      Tail(image_dicts), Tail(responses),
                                      Append(output_data,
                                             <<folder_type, subfolder, filename, d.data>>),
                                      Append(issued, d.request), warnings)

\* variant: a failed download is logged and the loop goes on
RECURSIVE fetch_images_swallow(_, _, _, _, _)
fetch_images_swallow(image_dicts, responses, output_data, issued, warnings) ==
    IF image_dicts = <<>>
        THEN [raised |-> "", output_data |-> output_data,
              requests |-> issued, warnings |-> warnings]
        ELSE LET image_dict == Head(image_dicts) IN
             IF "filename" \notin DOMAIN image_dict
                 THEN fetch_images_swallow(Tail(image_dicts), responses, output_data,
                                   issued, warnings + 1)
                 ELSE LET filename == image_dict.filename
                          subfolder == dict_get(image_dict, "subfolder", "")
                          folder_type == dict_get(image_dict, "type", "output")
                          d == download(filename, subfolder, folder_type,
                                        Head(responses))
                      IN IF d.raised # ""
                             THEN fetch_images_swallow(
                                      Tail(image_dicts), Tail(responses), output_data,
                                      Append(issued, d.request), warnings + 1)
                             ELSE fetch_images_swallow(
                                      Tail(image_dicts), Tail(responses),
                                      Append(output_data,
                                             <<folder_type, subfolder, filename, d.data>>),
                                      Append(issued, d.request), warnings)

\* the second loop of get_job_outputs; responses are the status codes of the
\* downloads still to come
RECURSIVE fetch_images(_, _, _, _, _)
fetch_images(image_dicts, responses, output_data, issued, warnings) ==
    IF image_dicts = <<>>
        THEN [raised |-> "", output_data |-> output_data,
              requests |-> issued, warnings |-> warnings]
        ELSE LET image_dict == Head(image_dicts) IN
             IF "filename" \notin DOMAIN image_dict
                 THEN fetch_images(Tail(image_dicts), responses, output_data,
                                   issued, warnings + 1)
                 ELSE LET filename == image_dict.filename
                          subfolder == dict_get(image_dict, "subfolder", "")
                          folder_type == dict_get(image_dict, "type", "output")
                          d == download(filename, subfolder, folder_type,
                                        Head(responses))
                      IN IF d.raised # ""
                             THEN [raised |-> d.raised, output_data |-> <<>>,
                                   requests |-> Append(issued, d.request),
                                   warnings |-> warnings]
                             ELSE fetch_images(
                                      Tail(image_dicts), Tail(responses),
                                      Append(output_data,
                                             <<folder_type, subfolder, filename, d.data>>),
                                      Append(issued, d.request), warnings)

\* variant: a record without outputs yields an empty list
get_job_outputs_lenient(history, responses) ==
    IF "outputs" \notin DOMAIN history
        THEN /\ last' = Returned("get_job_outputs", <<history>>, <<>>, 0)
             /\ requests' = <<>>
             /\ UNCHANGED <<workflow, endpoint, shadow>>
        ELSE LET found == collect_images(history.outputs)
                 r == fetch_images(found.image_dicts, responses, <<>>, <<>>,
                                   found.warnings)
             IN /\ last' = IF r.raised # ""
                               THEN Raised("get_job_outputs", <<history>>,
                                           r.raised, r.warnings)
                               ELSE Returned("get_job_outputs", <<history>>,
                                             r.output_data, r.warnings)
                /\ requests' = r.requests
                /\ UNCHANGED <<workflow, endpoint, shadow>>

get_job_outputs(history, responses) ==
    IF "outputs" \notin DOMAIN history
        THEN /\ last' = Raised("get_job_outputs", <<history>>, "ValueError", 0)
             /\ requests' = <<>>
             /\ UNCHANGED <<workflow, endpoint, shadow>>
        ELSE LET found == collect_images(history.outputs)
                 r == fetch_images(found.image_dicts, responses, <<>>, <<>>,
                                   found.warnings)
             IN /\ last' = IF r.raised # ""
                               THEN Raised("get_job_outputs", <<history>>,
                                           r.raised, r.warnings)
                               ELSE Returned("get_job_outputs", <<history>>,
                                             r.output_data, r.warnings)
                /\ requests' = r.requests
                /\ UNCHANGED <<workflow, endpoint, shadow>>

----------------------------------------------------------------------------
(* The environment: what the server may answer, what a caller may pass *)

ClientIds == {"uuid-1", "uuid-2"}
PromptIds == {"abc123", "xyz"}
StatusCodes == {200, 201, 404, 500}
NodeCounts == 0..2

SubmitResponses ==
    [status_code : StatusCodes,
     json : {[prompt_id |-> "abc123"], [prompt_id |-> ""], [error |-> "invalid prompt"]}]

\* image references: complete, with the defaults left out, without a filename
ImageDicts ==
    {[filename |-> "a.png", subfolder |-> "sub", type |-> "temp"],
     [filename |-> "b.png"],
     [subfolder |-> "sub", type |-> "temp"]}

SeqsUpTo(S, n) == UNION {[1..k -> S] : k \in 0..n}

\* output nodes: without an images key, or with a list of image references
Nodes ==
    {[class_type |-> "PreviewAny"]}
        \cup {[images |-> images] : images \in SeqsUpTo(ImageDicts, MaxImages)}

RECURSIVE CountImages(_)
CountImages(nodes) ==
    IF nodes = <<>> THEN 0
    ELSE (IF "images" \in DOMAIN Head(nodes) THEN Len(Head(nodes).images) ELSE 0)
             + CountImages(Tail(nodes))

\* outputs sections of at most MaxImages image references in all
OutputSections ==
    {nodes \in UNION {[1..k -> Nodes] : k \in NodeCounts} :
        CountImages(nodes) <= MaxImages}

\* the image reference of the documented example
ExampleImage ==
    [filename |-> "ComfyUI_00001_.png", subfolder |-> "", type |-> "output"]

\* history records as passed to get_job_outputs
Histories ==
    {[outputs |-> nodes] : nodes \in OutputSections}
        \cup {[status |-> [completed |-> TRUE, status_str |-> "success"]]}

\* history records as the server keeps them
ServerRecords ==
    {[status |-> [completed |-> FALSE, status_str |-> "error"], outputs |-> <<>>],
     [status |-> [completed |-> TRUE, status_str |-> "error"], outputs |-> <<>>],
     [status |-> [completed |-> TRUE, status_str |-> "success"],
      outputs |-> <<[images |-> <<ExampleImage>>]>>],
     [status |-> [completed |-> TRUE, status_str |-> "success"], outputs |-> <<>>],
     [status |-> [completed |-> TRUE, status_str |-> "success"]],
     [outputs |-> <<[images |-> <<ExampleImage>>]>>]}

QueryResponses ==
    [status_code : {200},
     json : UNION {[ids -> ServerRecords] : ids \in SUBSET PromptIds}]
        \cup [status_code : {404, 500}, json : {<<>>}]

\* the status codes of the downloads a history record leads to: one for each
\* image reference that names a file
DownloadAnswers(history) ==
    LET image_dicts == collect_images(dict_get(history, "outputs", <<>>)).image_dicts
        named == {i \in DOMAIN image_dicts : "filename" \in DOMAIN image_dicts[i]}
    IN [1..Cardinality(named) -> {200, 404}]

\* the calls and answers of the documented examples
ExampleSubmits ==
    {[status_code |-> 200, json |-> [prompt_id |-> "abc123"]],
     [status_code |-> 200, json |-> [prompt_id |-> ""]],
     [status_code |-> 500, json |-> [error |-> "invalid prompt"]]}

ExampleRecord ==
    [status |-> [completed |-> TRUE, status_str |-> "success"],
     outputs |-> <<[images |-> <<ExampleImage>>]>>]

ExampleQueries ==
    {[status_code |-> 200, json |-> ("xyz" :> ExampleRecord)],
     [status_code |-> 200, json |-> ("abc123" :> ExampleRecord)],
     [status_code |-> 404, json |-> <<>>]}

ExampleHistories ==
    {ExampleRecord, [status |-> [completed |-> TRUE, status_str |-> "success"]]}

----------------------------------------------------------------------------
(* State after construction *)

NoStatus == [none |-> TRUE]

Init ==
    /\ workflow = DEFAULT_WORKFLOW
    /\ endpoint = DEFAULT_ENDPOINT
    /\ last = Returned("__init__", <<>>, "", 0)
    /\ requests = <<>>
    /\ shadow = [width |-> DEFAULT_WIDTH, height |-> DEFAULT_HEIGHT,
                 seed |-> DEFAULT_SEED, positive |-> DEFAULT_POSITIVE,
                 negative |-> DEFAULT_NEGATIVE]
    /\ pc = "set_positive"
    /\ attempt = 0
    /\ prompt_id = ""
    /\ status = NoStatus
    /\ outputs = <<>>
    /\ tally = [sleeps |-> 0, queries |-> 0, extractions |-> 0, completed |-> 0,
                raised |-> ""]

Next ==
    \/ \E value \in Ints : width_setter(value) /\ UNCHANGED demoVars
    \/ \E value \in Ints : height_setter(value) /\ UNCHANGED demoVars
    \/ \E value \in Ints : seed_setter(value) /\ UNCHANGED demoVars
    \/ \E value \in Strings : positive_setter(value) /\ UNCHANGED demoVars
    \/ \E value \in Strings : negative_setter(value) /\ UNCHANGED demoVars
    \/ \E response \in ExampleSubmits :
          submit_job("uuid-1", response) /\ UNCHANGED demoVars
    \/ \E response \in ExampleQueries :
          query_job("abc123", response) /\ UNCHANGED demoVars
    \/ \E status_code \in {200, 404} :
          /\ download_output(ExampleImage.filename, ExampleImage.subfolder,
                             ExampleImage.type, status_code)
          /\ UNCHANGED demoVars
    \/ \E history \in ExampleHistories, status_code \in {200, 404} :
          get_job_outputs(history, <<status_code>>) /\ UNCHANGED demoVars

Spec == Init /\ [][Next]_vars

\* the HTTP operations alone, over every input within the bounds
NextIO ==
    \/ \E client_id \in ClientIds, response \in SubmitResponses :
          submit_job(client_id, response) /\ UNCHANGED demoVars
    \/ \E pid \in PromptIds \cup {""}, response \in QueryResponses :
          query_job(pid, response) /\ UNCHANGED demoVars
    \/ \E image_dict \in ImageDicts, status_code \in StatusCodes :
          /\ "filename" \in DOMAIN image_dict
          /\ download_output(image_dict.filename,
                             dict_get(image_dict, "subfolder", ""),
                             dict_get(image_dict, "type", "output"), status_code)
          /\ UNCHANGED demoVars
    \/ \E history \in Histories :
          \E responses \in DownloadAnswers(history) :
              get_job_outputs(history, responses) /\ UNCHANGED demoVars

SpecIO == Init /\ [][NextIO]_vars

----------------------------------------------------------------------------
(* demo.py *)

RETRIES == <<10, 10, 20, 30, 40, 50, 60, 60>>

TIGER == <<"A", " ", "t", "i", "g", "e", "r", ".">>

\* the script ends on an exception no one catches
Abort(exc) ==
    /\ pc' = "failed"
    /\ tally' = [tally EXCEPT !.raised = exc]

\* client.positive = "A tiger."
demo_set_positive ==
    /\ pc = "set_positive"
    /\ positive_setter(TIGER)
    /\ IF last'.raised # ""
           THEN Abort(last'.raised)
           ELSE pc' = "submit" /\ UNCHANGED tally
    /\ UNCHANGED <<attempt, prompt_id, status, outputs>>

\* prompt_id = client.submit_job()
demo_submit ==
    /\ pc = "submit"
    /\ \E client_id \in ClientIds, response \in SubmitResponses :
           submit_job(client_id, response)
    /\ IF last'.raised # ""
           THEN Abort(last'.raised) /\ UNCHANGED prompt_id
           ELSE pc' = "for" /\ prompt_id' = ValueOf(last') /\ UNCHANGED tally
    /\ UNCHANGED <<attempt, status, outputs>>

\* for interval in RETRIES: time.sleep(interval)
demo_for ==
    /\ pc = "for"
    /\ IF attempt < Len(RETRIES)
           THEN /\ attempt' = attempt + 1
                /\ tally' = [tally EXCEPT !.sleeps = @ + 1]
                /\ pc' = "query"
           ELSE /\ pc' = "done"
                /\ UNCHANGED <<attempt, tally>>
    /\ UNCHANGED <<clientVars, prompt_id, status, outputs>>

\* status = client.query_job(prompt_id)
demo_query ==
    /\ pc = "query"
    /\ \E response \in QueryResponses : query_job(prompt_id, response)
    /\ IF last'.raised # ""
           THEN /\ pc' = "failed"
                /\ tally' = [tally EXCEPT !.queries = @ + 1, !.raised = last'.raised]
                /\ UNCHANGED status
           ELSE /\ pc' = "if"
                /\ tally' = [tally EXCEPT !.queries = @ + 1]
                /\ status' = ValueOf(last')
    /\ UNCHANGED <<attempt, prompt_id, outputs>>

\* if status["status"]["completed"]: assert ... else: print("Waiting")
demo_if ==
    /\ pc = "if"
    /\ IF "status" \notin DOMAIN status
           THEN Abort("KeyError")
           ELSE IF status.status.completed
               THEN IF status.status.status_str = "success"
                   THEN /\ pc' = "get_job_outputs"
                        /\ tally' = [tally EXCEPT !.completed = @ + 1]
                   ELSE /\ pc' = "failed"
                        /\ tally' = [tally EXCEPT !.completed = @ + 1,
                                                  !.raised = "AssertionError"]
               ELSE pc' = "for" /\ UNCHANGED tally
    /\ UNCHANGED <<clientVars, attempt, prompt_id, status, outputs>>

\* outputs = client.get_job_outputs(status)
demo_get_job_outputs ==
    /\ pc = "get_job_outputs"
    /\ \E responses \in DownloadAnswers(status) : get_job_outputs(status, responses)
    /\ IF last'.raised # ""
           THEN /\ pc' = "failed"
                /\ tally' = [tally EXCEPT !.extractions = @ + 1,
                                          !.raised = last'.raised]
                /\ UNCHANGED outputs
           ELSE /\ pc' = "write"
                /\ tally' = [tally EXCEPT !.extractions = @ + 1]
                /\ outputs' = ValueOf(last')
    /\ UNCHANGED <<attempt, prompt_id, status>>

\* without the break, the loop goes on after the image is written
demo_write_continue ==
    /\ pc = "write"
    /\ IF outputs = <<>>
           THEN Abort("IndexError")
           ELSE \/ pc' = "for" /\ UNCHANGED tally
                \/ Abort("OSError")
    /\ UNCHANGED <<clientVars, attempt, prompt_id, status, outputs>>

\* print(outputs[0][:3]); write outputs[0][3] to tiger.png; break
demo_write ==
    /\ pc = "write"
    /\ IF outputs = <<>>
           THEN Abort("IndexError")
           ELSE \/ pc' = "done" /\ UNCHANGED tally
                \/ Abort("OSError")
    /\ UNCHANGED <<clientVars, attempt, prompt_id, status, outputs>>

NextDemo ==
    \/ demo_set_positive
    \/ demo_submit
    \/ demo_for
    \/ demo_query
    \/ demo_if
    \/ demo_get_job_outputs
    \/ demo_write

\* the script runs on: every call it makes returns or raises
SpecDemo == Init /\ [][NextDemo]_vars /\ WF_vars(NextDemo)

----------------------------------------------------------------------------
(* Vocabulary of the properties *)

NonBlank(s) == \E i \in DOMAIN s : s[i] \notin Whitespace
Is2xx(status_code) == status_code >= 200 /\ status_code < 300
Called(op) == last.op = op

\* the image references of an outputs section, node after node
RECURSIVE AllRefs(_)
AllRefs(nodes) ==
    IF nodes = <<>> THEN <<>>
    ELSE LET front == SubSeq(nodes, 1, Len(nodes) - 1)
             node == nodes[Len(nodes)]
         IN AllRefs(front) \o (IF "images" \in DOMAIN node THEN node.images ELSE <<>>)

HasFilename(ref) == "filename" \in DOMAIN ref
NamedRefs(nodes) == SelectSeq(AllRefs(nodes), HasFilename)
KindOf(ref) == IF "type" \in DOMAIN ref THEN ref.type ELSE "output"
SubfolderOf(ref) == IF "subfolder" \in DOMAIN ref THEN ref.subfolder ELSE ""
ParamsOf(ref) ==
    [filename |-> ref.filename, subfolder |-> SubfolderOf(ref), type |-> KindOf(ref)]

AllDownloadsSucceeded ==
    \A j \in DOMAIN requests : Is2xx(requests[j].response.status_code)

\* the last call was get_job_outputs on a record with an outputs section
Extracted == Called("get_job_outputs") /\ "outputs" \in DOMAIN ArgsOf(last)[1]

\* one tuple per named reference, in order, each with the bytes of its own download
TuplesMatch(refs) ==
    /\ last.raised = ""
    /\ Len(ValueOf(last)) = Len(refs)
    /\ Len(requests) = Len(refs)
    /\ \A i \in DOMAIN refs :
           /\ requests[i].params = ParamsOf(refs[i])
           /\ ValueOf(last)[i] = <<KindOf(refs[i]), SubfolderOf(refs[i]),
                                refs[i].filename, requests[i].response.content>>

TemplateIsShadow ==
    /\ width = shadow.width
    /\ height = shadow.height
    /\ seed = shadow.seed
    /\ positive = shadow.positive
    /\ negative = shadow.negative

----------------------------------------------------------------------------
(* Properties *)

\* C1: for width, height, seed and the positive prompt, a set of a valid value
\* (an integer > 0; a string with a non-whitespace character) succeeds and the
\* field then reads as that value; a set of an invalid value raises ValueError
\* and the field reads as it did before the call.
C1_ValidatedSetters ==
    [][/\ last'.op = "width" =>
            IF ArgsOf(last')[1] > 0
                THEN last'.raised = "" /\ width' = ArgsOf(last')[1]
                ELSE last'.raised = "ValueError" /\ width' = width
       /\ last'.op = "height" =>
            IF ArgsOf(last')[1] > 0
                THEN last'.raised = "" /\ height' = ArgsOf(last')[1]
                ELSE last'.raised = "ValueError" /\ height' = height
       /\ last'.op = "seed" =>
            IF ArgsOf(last')[1] > 0
                THEN last'.raised = "" /\ seed' = ArgsOf(last')[1]
                ELSE last'.raised = "ValueError" /\ seed' = seed
       /\ last'.op = "positive" =>
            IF NonBlank(ArgsOf(last')[1])
                THEN last'.raised = "" /\ positive' = ArgsOf(last')[1]
                ELSE last'.raised = "ValueError" /\ positive' = positive]_vars

\* a rejected width after an accepted one: the accepted value is still read
C1_Witness ==
    /\ Called("width") /\ ArgsOf(last)[1] = 0 /\ last.raised = "ValueError"
    /\ width = 1
    /\ positive = <<" ", "a">>

\* C2: submit_job returns the prompt_id of a successful response when it is
\* non-empty; returns the empty string and logs a warning, without raising, when
\* the response is successful and prompt_id is empty or missing; raises the
\* transport error and returns nothing when the status is not a success.
C2_SubmitOutcome ==
    Called("submit_job") =>
        LET response == requests[1].response IN
        IF ~Is2xx(response.status_code)
            THEN last.raised = "HTTPStatusError"
            ELSE /\ last.raised = ""
                 /\ IF "prompt_id" \in DOMAIN response.json
                           /\ response.json.prompt_id # ""
                        THEN ValueOf(last) = response.json.prompt_id
                        ELSE ValueOf(last) = "" /\ last.warnings = 1

\* a successful response without a prompt_id: empty result, one warning
C2_Witness ==
    /\ Called("submit_job")
    /\ Is2xx(requests[1].response.status_code)
    /\ "prompt_id" \notin DOMAIN requests[1].response.json
    /\ last.raised = "" /\ ValueOf(last) = "" /\ last.warnings = 1

\* C3: query_job raises the transport error when the status is not a success,
\* raises KeyError when the status is a success and prompt_id is no key of the
\* returned mapping, and otherwise returns the record stored under prompt_id.
C3_QueryOutcome ==
    Called("query_job") =>
        LET pid == ArgsOf(last)[1]
            response == requests[1].response
        IN IF ~Is2xx(response.status_code)
               THEN last.raised = "HTTPStatusError"
               ELSE IF pid \notin DOMAIN response.json
                   THEN last.raised = "KeyError"
                   ELSE last.raised = "" /\ ValueOf(last) = response.json[pid]

\* the mapping holds two different records and the one asked for is returned
C3_Witness ==
    /\ Called("query_job") /\ last.raised = ""
    /\ ArgsOf(last)[1] = "xyz"
    /\ DOMAIN requests[1].response.json = PromptIds
    /\ requests[1].response.json["abc123"] # requests[1].response.json["xyz"]
    /\ ValueOf(last) = requests[1].response.json["xyz"]

\* C4: when every image reference of the outputs section has a filename and
\* every download succeeds, get_job_outputs returns one tuple (kind, subfolder,
\* filename, bytes) per reference, in node order and then list order, with the
\* bytes of the download made for that reference and with "" and "output" for a
\* missing subfolder and type.
C4_OneTuplePerReference ==
    (/\ Extracted
     /\ \A i \in DOMAIN AllRefs(ArgsOf(last)[1].outputs) :
            HasFilename(AllRefs(ArgsOf(last)[1].outputs)[i])
     /\ AllDownloadsSucceeded)
        => TuplesMatch(AllRefs(ArgsOf(last)[1].outputs))

\* two nodes of one image each, the first with the defaults left out
C4_Witness ==
    /\ Extracted /\ last.raised = ""
    /\ Len(ArgsOf(last)[1].outputs) = 2
    /\ Len(ValueOf(last)) = 2
    /\ ValueOf(last)[1] = <<"output", "", "b.png", <<"bytes", "output", "", "b.png">>>>
    /\ ValueOf(last)[2] = <<"temp", "sub", "a.png", <<"bytes", "temp", "sub", "a.png">>>>

C6_NoOutputsKey ==
    (Called("get_job_outputs") /\ "outputs" \notin DOMAIN ArgsOf(last)[1])
        => /\ last.raised = "ValueError"
           /\ requests = <<>>
           /\ TemplateIsShadow
           /\ endpoint = DEFAULT_ENDPOINT

\* the record without outputs is passed to a client whose template was changed
C6_Witness ==
    /\ Called("get_job_outputs") /\ "outputs" \notin DOMAIN ArgsOf(last)[1]
    /\ last.raised = "ValueError"
    /\ width = 1 /\ negative = <<" ">>

\* C7: submit_job, query_job and download_output issue exactly one request,
\* and raise the transport error when its status is not a success.
\* get_job_outputs requests the references with a filename in order, each at
\* most once; a failed download is the last request made and the call raises
\* instead of returning a list.
C7_NoRetry ==
    /\ (Called("submit_job") \/ Called("query_job") \/ Called("download_output"))
           => /\ Len(requests) = 1
              /\ ~Is2xx(requests[1].response.status_code)
                     => last.raised = "HTTPStatusError"
    /\ Extracted =>
           LET named == NamedRefs(ArgsOf(last)[1].outputs) IN
           /\ Len(requests) <= Len(named)
           /\ \A j \in DOMAIN requests :
                  /\ requests[j].method = "GET"
                  /\ requests[j].params = ParamsOf(named[j])
                  /\ ~Is2xx(requests[j].response.status_code)
                         => j = Len(requests) /\ last.raised = "HTTPStatusError"
           /\ last.raised = "" => Len(requests) = Len(named)
           /\ last.raised # "" => last.value = NoValue

\* the first of two downloads fails: one request, no list
C7_Witness ==
    /\ Extracted
    /\ Len(NamedRefs(ArgsOf(last)[1].outputs)) = 2
    /\ Len(requests) = 1
    /\ requests[1].response.status_code = 404
    /\ last.raised = "HTTPStatusError"

\* C8: the negative prompt setter accepts every string, the empty and the
\* whitespace-only ones included, and the field then reads as that string.
C8_NegativeAcceptsAll ==
    Called("negative") => last.raised = "" /\ negative = ArgsOf(last)[1]

\* a whitespace-only negative prompt is stored as given
C8_Witness ==
    Called("negative") /\ ArgsOf(last)[1] = <<" ">> /\ negative = <<" ">>

\* C9: every field of the template holds the value of its last successful set,
\* or its default; the endpoint never changes; and the template submit_job
\* sends is the client's template, which the call leaves as it was.
C9_TemplateFrame ==
    /\ TemplateIsShadow
    /\ endpoint = DEFAULT_ENDPOINT
    /\ Called("submit_job") =>
           /\ requests[1].method = "POST"
           /\ requests[1].url = DEFAULT_ENDPOINT \o "prompt"
           /\ requests[1].json.prompt = workflow

\* a failed submission of a changed template: the template is still the one sent
C9_Witness ==
    /\ Called("submit_job") /\ last.raised = "HTTPStatusError"
    /\ width = 1 /\ height = DEFAULT_HEIGHT /\ seed = DEFAULT_SEED
    /\ positive = <<"a", " ">> /\ negative = <<>>
    /\ requests[1].json.prompt = workflow

\* what demo.py keeps to while it runs, and where it ends
DemoSafe ==
    /\ tally.queries <= 8
    /\ tally.queries <= tally.sleeps
    /\ tally.sleeps = attempt
    /\ tally.extractions <= 1
    /\ tally.completed <= 1
    /\ (pc = "get_job_outputs" \/ tally.extractions = 1)
           => status.status.completed /\ tally.completed = 1
    /\ pc \in {"for", "query"} => tally.completed = 0
    /\ (pc = "for" /\ attempt > 0)
           => /\ Called("query_job") /\ last.raised = ""
              /\ status = ValueOf(last)
              /\ ~status.status.completed
    /\ ((Called("query_job") \/ Called("get_job_outputs")) /\ last.raised # "")
           => pc = "failed" /\ tally.raised = last.raised

DemoEnded == pc \in {"done", "failed"}

\* C10: the demo loop ends. Meanwhile it makes at most 8 queries, each after a
\* sleep; it extracts at most once and only from a completed record; it goes
\* round again only when the last query returned a record that is not
\* completed; and a query or an extraction that raises ends the script.
C10_DemoLoopTerminates == []DemoSafe /\ <>DemoEnded

\* the eighth query finds the job completed and its image is written
C10_Witness ==
    /\ pc = "done"
    /\ tally.queries = 8
    /\ tally.extractions = 1
    /\ Len(outputs) = 1

====
